---- MODULE Spec2Model ----
(***************************************************************************)
(* A model of src/main.go: QuantumObject (a weighted distribution over     *)
(* grid coordinates that collapses to one coordinate) and World (the       *)
(* container with MeasureInteraction and CollapseAll).                     *)
(*                                                                         *)
(* Weights are float64 in the source.  They are modelled as exact          *)
(* rationals <<numerator, denominator>> in lowest terms, so the model      *)
(* covers the arithmetic of the code without floating-point rounding.      *)
(* A Go map is a reference: NewQuantumObject stores the caller's map, so   *)
(* two objects can share one map.  alias[o] is the set of objects whose    *)
(* CoordDist field points to the same map as o's.                          *)
(* Go enumerates a map in an unspecified order that can differ from one    *)
(* range loop to the next, and rand.Float64() returns any value of [0,1):  *)
(* a method is the set of states it can end in, one for every draw and     *)
(* every order of enumeration of the loop whose result depends on them.    *)
(***************************************************************************)
EXTENDS Integers, Sequences, FiniteSets, TLC

VARIABLES
    CoordDist,    \* object -> its map: a function from a set of coordinates to weights
    alias,        \* object -> the objects whose CoordDist is the same Go map
    IsCollapsed,  \* object -> BOOLEAN
    FinalCoord,   \* object -> coordinate ((0,0), Go's zero value, until collapsed)
    Objects,      \* World.Objects: a sequence of object references
    last,         \* the last call: its name, its outcome, the rand.Float64() calls it made
    pc            \* the caller: <<"api", 0>> (any call may come next), or <<line of exampleScenario, i>>

vars == <<CoordDist, alias, IsCollapsed, FinalCoord, Objects, last, pc>>

\* ------------------------------------------------------------------ bounds
\* Initial weights are absent, or one of 0 .. MaxWeight.
MaxWeight == 1
\* Draws of rand.Float64() are k/RDen for k in 0 .. RDen-1, all in [0,1).
RDen == 2
\* World.Objects holds at most MaxObjects references.
MaxObjects == 2
\* The single-object specification: initial weights are absent or 0 .. ObjMaxWeight,
\* and the draws are k/ObjRDen for k in 0 .. ObjRDen-1.
ObjMaxWeight == 7
ObjRDen == 10
\* The scenario runs on a grid of GridWidth x 1 cells, and gaussFactor takes the
\* values k/GaussSteps for k in 1 .. GaussSteps.
GridWidth == 2
GaussSteps == 2

\* ------------------------------------------------------- exact arithmetic
RECURSIVE GCD(_, _)
GCD(a, b) == IF b = 0 THEN a ELSE GCD(b, a % b)

Rat(n, d) == LET g == GCD(n, d) IN <<n \div g, d \div g>>

Zero == <<0, 1>>

RAdd(p, q) == Rat(p[1] * q[2] + q[1] * p[2], p[2] * q[2])

RMul(p, q) == Rat(p[1] * q[1], p[2] * q[2])

RDiv(p, q) == Rat(p[1] * q[2], p[2] * q[1])

RLeq(p, q) == p[1] * q[2] <= q[1] * p[2]

RPos(p) == p[1] > 0

\* Every value rand.Float64() returns in the model.
Draws == {Rat(k, RDen) : k \in 0 .. RDen - 1}

\* ------------------------------------------------------------ enumeration
\* Every order in which a range loop can visit the keys S of a map.
Orders(S) == {f \in [1 .. Cardinality(S) -> S] : \A x \in S : \E i \in DOMAIN f : f[i] = x}

\* ------------------------------------------------------------ QuantumObject
\* total := 0.0; for _, w := range q.CoordDist { total += w }
RECURSIVE SumWeights(_, _)
SumWeights(m, keys) ==
    IF keys = {} THEN Zero
    ELSE LET k == CHOOSE x \in keys : TRUE
         IN RAdd(m[k], SumWeights(m, keys \ {k}))

Total(m) == SumWeights(m, DOMAIN m)

\* Scale dividing by the number of entries instead of their total.
ScaleByCount(m, total) ==
    IF RPos(total) THEN [k \in DOMAIN m |-> RDiv(m[k], <<Cardinality(DOMAIN m), 1>>)] ELSE m

\* if total > 0 { for k, w := range q.CoordDist { q.CoordDist[k] = w / total } }
Scale(m, total) ==
    IF RPos(total) THEN [k \in DOMAIN m |-> RDiv(m[k], total)] ELSE m

\* NormalizeDistribution on the map itself.
NormalizeDistribution(m) == Scale(m, Total(m))

\* The fields of all objects as one value that the methods below transform, with
\* the number of rand.Float64() calls made so far by the call in progress, the
\* branch the call took, and the locals newDist1 and newDist2 of
\* MeasureInteraction once it has computed them.
Store(cd, al, ic, fc) ==
    [CoordDist |-> cd, alias |-> al, IsCollapsed |-> ic, FinalCoord |-> fc,
     draws |-> 0, outcome |-> "none", newDist1 |-> <<>>, newDist2 |-> <<>>]

Cur == Store(CoordDist, alias, IsCollapsed, FinalCoord)

\* Every object that shares q's map now sees m in place of it.
WriteMap(s, q, m) ==
    [s EXCEPT !.CoordDist = [o \in DOMAIN s.CoordDist |->
                  IF o \in s.alias[q] THEN m ELSE s.CoordDist[o]]]

\* q.NormalizeDistribution(): writes into q's map in place.
Normalize(s, q) ==
    [WriteMap(s, q, NormalizeDistribution(s.CoordDist[q])) EXCEPT !.outcome = "normalized"]

\* The loop of Collapse over keys (the map's keys in the order the range loop
\* visits them): the index of the first key at which r <= cumulative, or 0 when
\* the loop ends without a break.
RECURSIVE ScanStrict(_, _, _, _, _)
\* Scan breaking at r < cumulative instead of r <= cumulative.
ScanStrict(m, keys, i, cumulative, r) ==
    IF i > Len(keys) THEN 0
    ELSE IF ~RLeq(RAdd(cumulative, m[keys[i]]), r) THEN i
    ELSE ScanStrict(m, keys, i + 1, RAdd(cumulative, m[keys[i]]), r)

RECURSIVE Scan(_, _, _, _, _)
Scan(m, keys, i, cumulative, r) ==
    IF i > Len(keys) THEN 0
    ELSE IF RLeq(r, RAdd(cumulative, m[keys[i]])) THEN i
    ELSE Scan(m, keys, i + 1, RAdd(cumulative, m[keys[i]]), r)

\* The assignments of Collapse when the loop broke at keys[i]; none when i = 0.
Fix(s, q, keys, i) ==
    IF i = 0
    THEN [s EXCEPT !.draws = @ + 1, !.outcome = "unresolved"]
    ELSE [s EXCEPT !.draws = @ + 1, !.outcome = "collapsed",
                   !.FinalCoord[q] = keys[i],
                   !.IsCollapsed[q] = TRUE]

\* r := rand.Float64() and the loop of Collapse visiting the keys in the order
\* keys, q's map being normalized already.
DrawWith(s, q, r, keys) == Fix(s, q, keys, Scan(s.CoordDist[q], keys, 1, Zero, r))

\* The same for every draw r and every order of enumeration.
Draw(s, q) == {DrawWith(s, q, r, keys) : r \in Draws, keys \in Orders(DOMAIN s.CoordDist[q])}

\* q.Collapse() with rand.Float64() returning r and the range loop visiting keys.
CollapseWith(s, q, r, keys) ==
    IF s.IsCollapsed[q] THEN [s EXCEPT !.outcome = "noop"]
    ELSE DrawWith(Normalize(s, q), q, r, keys)

\* Collapse without its early return on q.IsCollapsed.
CollapseAgain(s, q) == Draw(Normalize(s, q), q)

\* q.Collapse(): the set of states it can end in.
Collapse(s, q) ==
    IF s.IsCollapsed[q] THEN {[s EXCEPT !.outcome = "noop"]}
    ELSE Draw(Normalize(s, q), q)

\* ------------------------------------------------------------------- World
\* obj.CoordDist = m: obj now points to a fresh map that no other object shares.
SetDist(s, obj, m) ==
    [s EXCEPT !.CoordDist[obj] = m,
              !.alias = [o \in DOMAIN s.alias |->
                  IF o = obj THEN {obj} ELSE s.alias[o] \ {obj}]]

\* The nested loops without the tests p1 > 0, p2 > 0 and w > 0.
NewDist1Unfiltered(d1, d2) ==
    [c1 \in DOMAIN d1 \cap DOMAIN d2 |-> RMul(d1[c1], d2[c1])]

\* The nested loops of MeasureInteraction: newDist1 gets w = p1 * p2 at every c1
\* that is also a key c2 of d2 with p1 > 0, p2 > 0 and w > 0.
NewDist1(d1, d2) ==
    [c1 \in {c \in DOMAIN d1 : c \in DOMAIN d2 /\ RPos(d1[c]) /\ RPos(d2[c])
                                /\ RPos(RMul(d1[c], d2[c]))} |-> RMul(d1[c1], d2[c1])]

NewDist2(d1, d2) ==
    [c2 \in {c \in DOMAIN d2 : c \in DOMAIN d1 /\ RPos(d1[c]) /\ RPos(d2[c])
                                /\ RPos(RMul(d1[c], d2[c]))} |-> RMul(d1[c2], d2[c2])]

\* obj1.Collapse() alone, without obj2.Collapse().
CollapseFirstOnly(s, obj1, obj2) ==
    {[u EXCEPT !.outcome = "interacted"] : u \in Collapse(s, obj1)}

\* obj1.Collapse(); obj2.Collapse()
CollapseBoth(s, obj1, obj2) ==
    {[u EXCEPT !.outcome = "interacted"] : u \in UNION {Collapse(t, obj2) : t \in Collapse(s, obj1)}}

\* MeasureInteraction from the emptiness test on: s has both maps normalized.
Update(s, obj1, obj2, newDist1, newDist2) ==
    IF DOMAIN newDist1 = {} \/ DOMAIN newDist2 = {}
    THEN {[s EXCEPT !.outcome = "nooverlap"]}
    ELSE CollapseBoth(SetDist(SetDist(s, obj1, newDist1), obj2, newDist2), obj1, obj2)

\* MeasureInteraction from the nested loops on: s has both maps normalized.
Intersect(s, obj1, obj2) ==
    Update([s EXCEPT !.newDist1 = NewDist1(s.CoordDist[obj1], s.CoordDist[obj2]),
                     !.newDist2 = NewDist2(s.CoordDist[obj1], s.CoordDist[obj2])],
           obj1, obj2,
           NewDist1(s.CoordDist[obj1], s.CoordDist[obj2]),
           NewDist2(s.CoordDist[obj1], s.CoordDist[obj2]))

\* MeasureInteraction without its early return when both objects are collapsed.
MeasureInteractionAlways(s, obj1, obj2) ==
    Intersect(Normalize(Normalize(s, obj1), obj2), obj1, obj2)

\* MeasureInteraction returning early when either object is collapsed.
MeasureInteractionEither(s, obj1, obj2) ==
    IF s.IsCollapsed[obj1] \/ s.IsCollapsed[obj2] THEN {[s EXCEPT !.outcome = "skipped"]}
    ELSE Intersect(Normalize(Normalize(s, obj1), obj2), obj1, obj2)

\* w.MeasureInteraction(obj1, obj2): the set of states it can end in.
MeasureInteraction(s, obj1, obj2) ==
    IF s.IsCollapsed[obj1] /\ s.IsCollapsed[obj2] THEN {[s EXCEPT !.outcome = "skipped"]}
    ELSE Intersect(Normalize(Normalize(s, obj1), obj2), obj1, obj2)

\* w.CollapseAll() from objs[i] on: obj.Collapse() for each obj in turn.
RECURSIVE CollapseFrom(_, _, _)
CollapseFrom(s, objs, i) ==
    IF i > Len(objs) THEN {[s EXCEPT !.outcome = "done"]}
    ELSE UNION {CollapseFrom(t, objs, i + 1) : t \in Collapse(s, objs[i])}

\* CollapseAll with a loop that starts at the second object.
CollapseAllButFirst(s, objs) == CollapseFrom(s, objs, 2)

CollapseAll(s, objs) == CollapseFrom(s, objs, 1)

\* ------------------------------------------------------------------ inputs
\* The coordinates the maps of the general specification use.
Coords == {<<0, 0>>, <<1, 0>>}

Weights == {Rat(w, 1) : w \in 0 .. MaxWeight}

\* Every map the caller can pass to NewQuantumObject within the bounds.
Dists == UNION {[K -> Weights] : K \in SUBSET Coords}

\* The objects of the general specification.
ObjectIds == {"a", "b"}

\* The ways the caller's maps can be shared between the objects of O.
Sharings(O) == {al \in [O -> SUBSET O] : \A o \in O : o \in al[o] /\ \A p \in al[o] : al[p] = al[o]}

\* ----------------------------------------------------------------- actions
\* The state after NewWorld and one NewQuantumObject per object: each object holds
\* the map it was given, IsCollapsed and FinalCoord have Go's zero values.
Init ==
    /\ CoordDist \in [ObjectIds -> Dists]
    /\ alias \in Sharings(ObjectIds)
    /\ \A o \in ObjectIds : \A p \in alias[o] : CoordDist[p] = CoordDist[o]
    /\ IsCollapsed = [o \in ObjectIds |-> FALSE]
    /\ FinalCoord = [o \in ObjectIds |-> <<0, 0>>]
    /\ Objects = <<>>
    /\ last = [op |-> "NewQuantumObject", args |-> <<>>, outcome |-> "none", draws |-> 0]
    /\ pc = <<"api", 0>>

\* The call op(args) returns with the objects as in s.
Return(s, op, args) ==
    /\ CoordDist' = s.CoordDist
    /\ alias' = s.alias
    /\ IsCollapsed' = s.IsCollapsed
    /\ FinalCoord' = s.FinalCoord
    /\ last' = [op |-> op, args |-> args, outcome |-> s.outcome, draws |-> s.draws]

AddQuantumObject(obj) ==
    /\ pc = <<"api", 0>>
    /\ Len(Objects) < MaxObjects
    /\ Objects' = Append(Objects, obj)
    /\ last' = [op |-> "AddQuantumObject", args |-> <<obj>>, outcome |-> "none", draws |-> 0]
    /\ UNCHANGED <<CoordDist, alias, IsCollapsed, FinalCoord, pc>>

CallNormalizeDistribution(q) ==
    /\ pc = <<"api", 0>>
    /\ Return(Normalize(Cur, q), "NormalizeDistribution", <<q>>)
    /\ UNCHANGED <<Objects, pc>>

CallCollapse(q) ==
    /\ pc = <<"api", 0>>
    /\ \E s \in Collapse(Cur, q) : Return(s, "Collapse", <<q>>)
    /\ UNCHANGED <<Objects, pc>>

CallMeasureInteraction(obj1, obj2) ==
    /\ pc = <<"api", 0>>
    /\ \E s \in MeasureInteraction(Cur, obj1, obj2) : Return(s, "MeasureInteraction", <<obj1, obj2>>)
    /\ UNCHANGED <<Objects, pc>>

CallCollapseAll ==
    /\ pc = <<"api", 0>>
    /\ \E s \in CollapseAll(Cur, Objects) : Return(s, "CollapseAll", <<>>)
    /\ UNCHANGED <<Objects, pc>>

Next ==
    \/ \E obj \in DOMAIN CoordDist : AddQuantumObject(obj)
    \/ \E q \in DOMAIN CoordDist : CallNormalizeDistribution(q)
    \/ \E q \in DOMAIN CoordDist : CallCollapse(q)
    \/ \E obj1, obj2 \in DOMAIN CoordDist : CallMeasureInteraction(obj1, obj2)
    \/ CallCollapseAll

Spec == Init /\ [][Next]_vars

\* ------------------------------------------- one object, explicit inputs
\* The coordinates, weights and draws of the single-object specification.
ObjCoords == {<<0, 0>>, <<1, 0>>, <<1, 1>>}

ObjDists == UNION {[K -> {Rat(w, 1) : w \in 0 .. ObjMaxWeight}] : K \in SUBSET ObjCoords}

ObjDraws == {Rat(k, ObjRDen) : k \in 0 .. ObjRDen - 1}

\* One object q built by NewQuantumObject from any map.
ObjInit ==
    /\ CoordDist \in [{"q"} -> ObjDists]
    /\ alias = [o \in {"q"} |-> {"q"}]
    /\ IsCollapsed = [o \in {"q"} |-> FALSE]
    /\ FinalCoord = [o \in {"q"} |-> <<0, 0>>]
    /\ Objects = <<>>
    /\ last = [op |-> "NewQuantumObject", args |-> <<>>, outcome |-> "none", draws |-> 0]
    /\ pc = <<"api", 0>>

\* q.Collapse() with the draw r and the enumeration order keys, both recorded in last.
CallCollapseWith(q, r, keys) ==
    /\ pc = <<"api", 0>>
    /\ \E s \in {CollapseWith(Cur, q, r, keys)} :
           /\ CoordDist' = s.CoordDist
           /\ alias' = s.alias
           /\ IsCollapsed' = s.IsCollapsed
           /\ FinalCoord' = s.FinalCoord
           /\ last' = [op |-> "Collapse", args |-> <<q>>, outcome |-> s.outcome,
                       draws |-> s.draws, r |-> r, keys |-> keys]
    /\ UNCHANGED <<Objects, pc>>

\* The draw and the enumeration order one q.Collapse() consumes: none when q is
\* collapsed, since Collapse then returns before rand.Float64() and the loop.
ObjInputs(q) ==
    IF IsCollapsed[q] THEN {<<Zero, <<>>>>}
    ELSE ObjDraws \X Orders(DOMAIN CoordDist[q])

ObjNext ==
    \/ \E q \in DOMAIN CoordDist : CallNormalizeDistribution(q)
    \/ \E q \in DOMAIN CoordDist : \E in \in ObjInputs(q) : CallCollapseWith(q, in[1], in[2])

ObjSpec == ObjInit /\ [][ObjNext]_vars

\* ------------------------------------- two objects, newDist1/2 recorded
\* Two objects built by NewQuantumObject from any maps over ObjCoords, sharing
\* one map or not.
CombInit ==
    /\ CoordDist \in [ObjectIds -> UNION {[K -> Weights] : K \in SUBSET ObjCoords}]
    /\ alias \in Sharings(ObjectIds)
    /\ \A o \in ObjectIds : \A p \in alias[o] : CoordDist[p] = CoordDist[o]
    /\ IsCollapsed = [o \in ObjectIds |-> FALSE]
    /\ FinalCoord = [o \in ObjectIds |-> <<0, 0>>]
    /\ Objects = <<>>
    /\ last = [op |-> "NewQuantumObject", args |-> <<>>, outcome |-> "none", draws |-> 0]
    /\ pc = <<"api", 0>>

\* w.MeasureInteraction(obj1, obj2), its locals newDist1 and newDist2 recorded in last.
CallMeasureInteractionRecorded(obj1, obj2) ==
    /\ pc = <<"api", 0>>
    /\ \E s \in MeasureInteraction(Cur, obj1, obj2) :
           /\ CoordDist' = s.CoordDist
           /\ alias' = s.alias
           /\ IsCollapsed' = s.IsCollapsed
           /\ FinalCoord' = s.FinalCoord
           /\ last' = [op |-> "MeasureInteraction", args |-> <<obj1, obj2>>,
                       outcome |-> s.outcome, draws |-> s.draws,
                       newDist1 |-> s.newDist1, newDist2 |-> s.newDist2]
    /\ UNCHANGED <<Objects, pc>>

CombNext ==
    \/ \E q \in DOMAIN CoordDist : CallCollapse(q)
    \/ \E obj1, obj2 \in DOMAIN CoordDist : CallMeasureInteractionRecorded(obj1, obj2)

CombSpec == CombInit /\ [][CombNext]_vars

\* --------------------------------------------------------- exampleScenario
\* for i := 0; i < 3; i++ { world.MeasureInteraction(observer, tree) }
Sightings == 3

\* The cells of the scenario's world.
Grid == {<<x, 0>> : x \in 0 .. GridWidth - 1}

\* uniformDistribution: weight 1.0 on every cell.
uniformDistribution == [c \in Grid |-> <<1, 1>>]

\* The values gaussFactor can take: exp(-0.5*distSq) is in (0, 1].
GaussValues == {Rat(k, GaussSteps) : k \in 1 .. GaussSteps}

\* exampleScenario up to and including its AddQuantumObject calls: Tree and John
\* hold a uniform distribution scaled cell by cell by gaussFactor, Observer1 a
\* uniform one, each in a map of its own.
ScenarioInit ==
    /\ \E tree, john \in [Grid -> GaussValues] :
           CoordDist = [o \in {"Tree", "John", "Observer1"} |->
               IF o = "Tree" THEN [c \in Grid |-> RMul(uniformDistribution[c], tree[c])]
               ELSE IF o = "John" THEN [c \in Grid |-> RMul(uniformDistribution[c], john[c])]
               ELSE uniformDistribution]
    /\ alias = [o \in {"Tree", "John", "Observer1"} |-> {o}]
    /\ IsCollapsed = [o \in {"Tree", "John", "Observer1"} |-> FALSE]
    /\ FinalCoord = [o \in {"Tree", "John", "Observer1"} |-> <<0, 0>>]
    /\ Objects = <<"Tree", "John", "Observer1">>
    /\ last = [op |-> "AddQuantumObject", args |-> <<"Observer1">>, outcome |-> "none", draws |-> 0]
    /\ pc = <<"L193", 0>>

\* world.MeasureInteraction(john, tree)
JohnPlantsTree ==
    /\ pc = <<"L193", 0>>
    /\ \E s \in MeasureInteraction(Cur, "John", "Tree") :
           Return(s, "MeasureInteraction", <<"John", "Tree">>)
    /\ pc' = <<"L196", 0>>
    /\ UNCHANGED Objects

\* One iteration of the loop: world.MeasureInteraction(observer, tree)
ObserverSeesTree ==
    /\ pc[1] = "L196"
    /\ pc[2] < Sightings
    /\ \E s \in MeasureInteraction(Cur, "Observer1", "Tree") :
           Return(s, "MeasureInteraction", <<"Observer1", "Tree">>)
    /\ pc' = <<"L196", pc[2] + 1>>
    /\ UNCHANGED Objects

\* The loop ends and world.CollapseAll() runs.
ScenarioCollapseAll ==
    /\ pc = <<"L196", Sightings>>
    /\ \E s \in CollapseAll(Cur, Objects) : Return(s, "CollapseAll", <<>>)
    /\ pc' = <<"L203", 0>>
    /\ UNCHANGED Objects

ScenarioNext == JohnPlantsTree \/ ObserverSeesTree \/ ScenarioCollapseAll

ScenarioSpec == ScenarioInit /\ [][ScenarioNext]_vars

\* ------------------------------------------------- the loop of sightings
\* The loop of lines 196-198, for (int i = 0; i < 3; i++) calling
\* MeasureInteraction on the same two objects, entered for any two objects in
\* any state that Collapse and earlier loops can produce.
\* The iteration i = 0: world.MeasureInteraction(obj1, obj2)
FirstSighting(obj1, obj2) ==
    /\ pc = <<"api", 0>>
    /\ \E s \in MeasureInteraction(Cur, obj1, obj2) :
           Return(s, "MeasureInteraction", <<obj1, obj2>>)
    /\ pc' = <<"L196", 1>>
    /\ UNCHANGED Objects

\* An iteration i > 0: the same call on the same two objects.
NextSighting ==
    /\ pc[1] = "L196"
    /\ pc[2] < Sightings
    /\ \E s \in MeasureInteraction(Cur, last.args[1], last.args[2]) :
           Return(s, "MeasureInteraction", last.args)
    /\ pc' = <<"L196", pc[2] + 1>>
    /\ UNCHANGED Objects

\* i = 3: the loop ends.
LoopExit ==
    /\ pc = <<"L196", Sightings>>
    /\ pc' = <<"api", 0>>
    /\ UNCHANGED <<CoordDist, alias, IsCollapsed, FinalCoord, Objects, last>>

LoopNext ==
    \/ \E q \in DOMAIN IsCollapsed : CallCollapse(q)
    \/ \E obj1, obj2 \in DOMAIN IsCollapsed : FirstSighting(obj1, obj2)
    \/ NextSighting
    \/ LoopExit

LoopSpec == Init /\ [][LoopNext]_vars

\* ------------------------------------------------------------------ claims
\* A distribution that offers an outcome: non-empty, with positive total weight.
NonDegenerate(m) == DOMAIN m # {} /\ RPos(Total(m))

\* The step just taken was the call op.
Called(op) == last'.op = op

\* C1: after a MeasureInteraction with a non-empty overlap on two uncollapsed
\* objects, both are collapsed and their final coordinates are equal.
C1_InteractionCollapsesBothToOnePoint ==
    [][(/\ Called("MeasureInteraction")
        /\ last'.outcome = "interacted"
        /\ last'.args[1] # last'.args[2]
        /\ ~IsCollapsed[last'.args[1]]
        /\ ~IsCollapsed[last'.args[2]])
       => (/\ IsCollapsed'[last'.args[1]]
           /\ IsCollapsed'[last'.args[2]]
           /\ FinalCoord'[last'.args[1]] = FinalCoord'[last'.args[2]])]_vars

\* C2: a collapsed object stays collapsed at the same final coordinate through
\* every call, and a Collapse call on a collapsed object changes no field of
\* it, its stored distribution included.
C2_CollapseIsIrreversible ==
    [][\A o \in DOMAIN IsCollapsed :
          IsCollapsed[o] =>
              /\ IsCollapsed'[o]
              /\ FinalCoord'[o] = FinalCoord[o]
              /\ (Called("Collapse") /\ last'.args = <<o>>) =>
                     (CoordDist'[o] = CoordDist[o] /\ last'.draws = 0)]_vars

\* C2 witness: Collapse was called on an object that had collapsed before, at a
\* coordinate other than the first one of its map.
C2_Witness ==
    /\ last.op = "Collapse"
    /\ last.outcome = "noop"
    /\ IsCollapsed[last.args[1]]
    /\ FinalCoord[last.args[1]] = <<1, 0>>
    /\ Cardinality(DOMAIN CoordDist[last.args[1]]) = 2

\* C3: a MeasureInteraction that finds an empty overlap leaves the stored
\* weights, the collapsed flags and the final coordinates of both objects as
\* they were.
C3_EmptyOverlapChangesNothing ==
    [][(Called("MeasureInteraction") /\ last'.outcome = "nooverlap")
       => \A o \in {last'.args[1], last'.args[2]} :
              /\ CoordDist'[o] = CoordDist[o]
              /\ IsCollapsed'[o] = IsCollapsed[o]
              /\ FinalCoord'[o] = FinalCoord[o]]_vars

\* C4: Collapse on an uncollapsed object whose distribution is empty or has
\* total weight zero leaves the object uncollapsed, whatever the draw.
C4_DegenerateStaysUncollapsed ==
    [][(/\ Called("Collapse")
        /\ ~IsCollapsed[last'.args[1]]
        /\ ~NonDegenerate(CoordDist[last'.args[1]]))
       => ~IsCollapsed'[last'.args[1]]]_vars

\* C5: MeasureInteraction on two collapsed objects changes no distribution, no
\* sharing of maps, no collapsed flag and no final coordinate, and draws no
\* random number.
C5_BothCollapsedIsNoOp ==
    [][(/\ Called("MeasureInteraction")
        /\ IsCollapsed[last'.args[1]]
        /\ IsCollapsed[last'.args[2]])
       => (/\ UNCHANGED <<CoordDist, alias, IsCollapsed, FinalCoord>>
           /\ last'.draws = 0)]_vars

\* C5 witness: MeasureInteraction has returned early on two distinct collapsed
\* objects, one of which stores weights that do not sum to 1 (normalizing it
\* would have changed it).
C5_Witness ==
    /\ last.op = "MeasureInteraction"
    /\ last.outcome = "skipped"
    /\ last.args[1] # last.args[2]
    /\ IsCollapsed[last.args[1]] /\ IsCollapsed[last.args[2]]
    /\ Total(CoordDist[last.args[1]]) # <<1, 1>>

\* C6: in a MeasureInteraction of a collapsed object (at c) with an uncollapsed
\* one, the uncollapsed one ends collapsed at c or stays uncollapsed; stated for
\* the case where c has positive weight in the collapsed object's map and every
\* weight the uncollapsed one stores is positive.
C6_PartnerOnlyCollapsesToSamePoint ==
    [][\A a, b \in DOMAIN IsCollapsed :
          (/\ Called("MeasureInteraction")
           /\ {a, b} = {last'.args[1], last'.args[2]}
           /\ IsCollapsed[a]
           /\ FinalCoord[a] \in DOMAIN CoordDist[a]
           /\ RPos(CoordDist[a][FinalCoord[a]])
           /\ ~IsCollapsed[b]
           /\ \A c \in DOMAIN CoordDist[b] : RPos(CoordDist[b][c]))
          => (IsCollapsed'[b] => FinalCoord'[b] = FinalCoord[a])]_vars

\* C7: CollapseAll collapses every object of World.Objects whose distribution
\* is non-degenerate, and no call turns a non-degenerate distribution into a
\* degenerate one.
C7_CollapseAllCollapsesAll ==
    [][/\ Called("CollapseAll") =>
              \A i \in 1 .. Len(Objects) :
                  NonDegenerate(CoordDist[Objects[i]]) => IsCollapsed'[Objects[i]]
       /\ \A o \in DOMAIN CoordDist :
              NonDegenerate(CoordDist[o]) => NonDegenerate(CoordDist'[o])]_vars

\* C7 witness: CollapseAll has just collapsed two distinct objects of the world.
C7_Witness ==
    /\ last.op = "CollapseAll"
    /\ last.draws = 2
    /\ Len(Objects) = 2
    /\ Objects[1] # Objects[2]
    /\ \A i \in 1 .. 2 : IsCollapsed[Objects[i]] /\ NonDegenerate(CoordDist[Objects[i]])

\* The sum of the weights of keys[1 .. j] in m.
RECURSIVE Cumulative(_, _, _)
Cumulative(m, keys, j) == IF j = 0 THEN Zero ELSE RAdd(Cumulative(m, keys, j - 1), m[keys[j]])

\* The least element of a non-empty set of numbers.
Least(S) == CHOOSE j \in S : \A k \in S : j <= k

\* The distribution {(0,0): 0.3, (1,0): 0.7}.
ThreeSeven == [c \in {<<0, 0>>, <<1, 0>>} |-> IF c = <<0, 0>> THEN <<3, 10>> ELSE <<7, 10>>]

\* C8: a Collapse that drew r on a distribution of positive total weight leaves
\* the map normalized and fixes the first key, in the order of enumeration, at
\* which the running sum of the normalized weights is >= r; with
\* {(0,0): 0.3, (1,0): 0.7} in that order, r = 0.2 gives (0,0) and r = 0.5 gives (1,0).
C8_CollapseTakesFirstCumulativeAboveDraw ==
    (/\ last.op = "Collapse"
     /\ last.outcome # "noop"
     /\ NonDegenerate(CoordDist[last.args[1]]))
    => /\ Total(CoordDist[last.args[1]]) = <<1, 1>>
       /\ {j \in 1 .. Len(last.keys) :
               RLeq(last.r, Cumulative(CoordDist[last.args[1]], last.keys, j))} # {}
       /\ IsCollapsed[last.args[1]]
       /\ FinalCoord[last.args[1]] =
              last.keys[Least({j \in 1 .. Len(last.keys) :
                  RLeq(last.r, Cumulative(CoordDist[last.args[1]], last.keys, j))})]
       /\ (CoordDist[last.args[1]] = ThreeSeven /\ last.keys = <<<<0, 0>>, <<1, 0>>>>)
              => /\ last.r = <<1, 5>> => FinalCoord[last.args[1]] = <<0, 0>>
                 /\ last.r = <<1, 2>> => FinalCoord[last.args[1]] = <<1, 0>>

\* C8 witness: {(0,0): 0.3, (1,0): 0.7} enumerated in that order with the draw
\* 0.5 has collapsed to (1,0).
C8_Witness ==
    /\ last.op = "Collapse"
    /\ last.outcome = "collapsed"
    /\ CoordDist[last.args[1]] = ThreeSeven
    /\ last.keys = <<<<0, 0>>, <<1, 0>>>>
    /\ last.r = <<1, 2>>
    /\ FinalCoord[last.args[1]] = <<1, 0>>

\* C9: NormalizeDistribution keeps the key set; with a positive total every
\* weight becomes w/total and the weights sum to 1; with a zero total the map is
\* unchanged; normalizing the result again gives the result.
C9_NormalizeDistribution ==
    [][Called("NormalizeDistribution") =>
          /\ DOMAIN CoordDist'[last'.args[1]] = DOMAIN CoordDist[last'.args[1]]
          /\ RPos(Total(CoordDist[last'.args[1]])) =>
                 /\ \A k \in DOMAIN CoordDist[last'.args[1]] :
                        RMul(CoordDist'[last'.args[1]][k], Total(CoordDist[last'.args[1]]))
                            = CoordDist[last'.args[1]][k]
                 /\ Total(CoordDist'[last'.args[1]]) = <<1, 1>>
          /\ ~RPos(Total(CoordDist[last'.args[1]])) =>
                 CoordDist'[last'.args[1]] = CoordDist[last'.args[1]]
          /\ NormalizeDistribution(CoordDist'[last'.args[1]]) = CoordDist'[last'.args[1]]]_vars

\* C9 witness: NormalizeDistribution has turned weights that did not sum to 1
\* into 0.3 and 0.7.
C9_Witness ==
    /\ last.op = "NormalizeDistribution"
    /\ CoordDist[last.args[1]] = ThreeSeven

\* C10: exampleScenario ends with Tree, John and Observer1 all collapsed, Tree
\* and John at one coordinate and Observer1 at Tree's coordinate.
C10_ScenarioEndsAtOnePoint ==
    pc[1] = "L203" =>
        /\ \A o \in {"Tree", "John", "Observer1"} : IsCollapsed[o]
        /\ FinalCoord["Tree"] = FinalCoord["John"]
        /\ FinalCoord["Observer1"] = FinalCoord["Tree"]

\* The coordinates with positive weight in both d1 and d2.
Overlap(d1, d2) == {c \in DOMAIN d1 \cap DOMAIN d2 : d1[c][1] > 0 /\ d2[c][1] > 0}

\* C11: the maps newDist1 and newDist2 that MeasureInteraction builds from the
\* normalized maps of its arguments have as keys exactly the coordinates with
\* positive weight in both, each with the product of the two normalized
\* weights, and are equal; {(0,0): 0.5, (1,1): 0.5} and {(1,1): 1} give
\* {(1,1): 0.5} twice.
C11_NewDistsAreOverlapProducts ==
    [][(Called("MeasureInteraction") /\ last'.outcome # "skipped") =>
          /\ DOMAIN last'.newDist1 =
                 Overlap(NormalizeDistribution(CoordDist[last'.args[1]]),
                         NormalizeDistribution(CoordDist[last'.args[2]]))
          /\ \A c \in DOMAIN last'.newDist1 :
                 last'.newDist1[c] =
                     RMul(NormalizeDistribution(CoordDist[last'.args[1]])[c],
                          NormalizeDistribution(CoordDist[last'.args[2]])[c])
          /\ last'.newDist2 = last'.newDist1
          /\ (/\ NormalizeDistribution(CoordDist[last'.args[1]])
                     = [c \in {<<0, 0>>, <<1, 1>>} |-> <<1, 2>>]
              /\ NormalizeDistribution(CoordDist[last'.args[2]])
                     = [c \in {<<1, 1>>} |-> <<1, 1>>])
                 => last'.newDist1 = [c \in {<<1, 1>>} |-> <<1, 2>>]]_vars

\* C11 witness: MeasureInteraction has built {(1,1): 0.5} twice from maps that
\* hold two coordinates and one coordinate.
C11_Witness ==
    /\ last.op = "MeasureInteraction"
    /\ last.outcome = "interacted"
    /\ last.args[1] # last.args[2]
    /\ last.newDist1 = [c \in {<<1, 1>>} |-> <<1, 2>>]
    /\ last.newDist2 = [c \in {<<1, 1>>} |-> <<1, 2>>]

\* The products of the weights of n1 and n2 over their overlap.
Products(n1, n2) == [c \in Overlap(n1, n2) |-> RMul(n1[c], n2[c])]

\* The overlap product of two stored maps: the products of their normalized weights.
OverlapProduct(d1, d2) == Products(NormalizeDistribution(d1), NormalizeDistribution(d2))

\* The step is MeasureInteraction on a and b, a collapsed and b not, and their
\* stored maps overlap.
OneCollapsedStep(a, b) ==
    /\ Called("MeasureInteraction")
    /\ {a, b} = {last'.args[1], last'.args[2]}
    /\ IsCollapsed[a]
    /\ ~IsCollapsed[b]
    /\ Overlap(CoordDist[a], CoordDist[b]) # {}

\* C12 as stated: with exactly one participant collapsed and a non-empty
\* overlap, MeasureInteraction is not skipped, both stored maps become the
\* overlap product, the uncollapsed participant collapses at a coordinate of
\* the overlap, and the collapsed one keeps its flag and final coordinate.
C12_BothStoreOverlapProduct ==
    [][\A a, b \in DOMAIN IsCollapsed :
          OneCollapsedStep(a, b) =>
              /\ last'.outcome = "interacted"
              /\ CoordDist'[a] = OverlapProduct(CoordDist[a], CoordDist[b])
              /\ CoordDist'[b] = OverlapProduct(CoordDist[a], CoordDist[b])
              /\ IsCollapsed'[b]
              /\ FinalCoord'[b] \in Overlap(CoordDist[a], CoordDist[b])
              /\ IsCollapsed'[a]
              /\ FinalCoord'[a] = FinalCoord[a]]_vars

\* C12 amended: the same, except that the uncollapsed participant ends storing
\* the overlap product normalized, because its Collapse normalizes the new map.
C12_UncollapsedStoresNormalizedProduct ==
    [][\A a, b \in DOMAIN IsCollapsed :
          OneCollapsedStep(a, b) =>
              /\ last'.outcome = "interacted"
              /\ CoordDist'[a] = OverlapProduct(CoordDist[a], CoordDist[b])
              /\ CoordDist'[b] =
                     NormalizeDistribution(OverlapProduct(CoordDist[a], CoordDist[b]))
              /\ IsCollapsed'[b]
              /\ FinalCoord'[b] \in Overlap(CoordDist[a], CoordDist[b])
              /\ IsCollapsed'[a]
              /\ FinalCoord'[a] = FinalCoord[a]]_vars

\* C12 witness: MeasureInteraction on two distinct objects has made one draw
\* (one of them was collapsed before), and they now store different maps, one
\* with weights that do not sum to 1, and different final coordinates.
C12_Witness ==
    /\ last.op = "MeasureInteraction"
    /\ last.outcome = "interacted"
    /\ last.args[1] # last.args[2]
    /\ last.draws = 1
    /\ CoordDist[last.args[1]] # CoordDist[last.args[2]]
    /\ \E o \in {last.args[1], last.args[2]} : Total(CoordDist[o]) # <<1, 1>>
    /\ FinalCoord[last.args[1]] # FinalCoord[last.args[2]]

\* The stored weights, collapsed flag and final coordinate of o are unchanged.
Untouched(o) ==
    /\ CoordDist'[o] = CoordDist[o]
    /\ IsCollapsed'[o] = IsCollapsed[o]
    /\ FinalCoord'[o] = FinalCoord[o]

\* C13: Collapse on one object changes no stored weight, collapsed flag or
\* final coordinate of any other object, and MeasureInteraction changes
\* nothing of any object that is not one of its two arguments, however the
\* objects were constructed.
C13_NoCrossObjectEffect ==
    [][/\ Called("Collapse") =>
              \A o \in DOMAIN IsCollapsed \ {last'.args[1]} : Untouched(o)
       /\ Called("MeasureInteraction") =>
              \A o \in DOMAIN IsCollapsed \ {last'.args[1], last'.args[2]} :
                  Untouched(o)]_vars

\* C14: stored weights never become negative, and when Collapse fixes the
\* final coordinate of an object whose total weight is positive, that
\* coordinate has strictly positive weight in the object's distribution,
\* whatever the draw and the enumeration order.
C14_CollapseFixesPositiveWeight ==
    [][/\ \A o \in DOMAIN CoordDist' : \A c \in DOMAIN CoordDist'[o] :
              RLeq(Zero, CoordDist'[o][c])
       /\ (/\ Called("Collapse")
           /\ ~IsCollapsed[last'.args[1]]
           /\ IsCollapsed'[last'.args[1]]
           /\ NonDegenerate(CoordDist[last'.args[1]]))
          => (/\ FinalCoord'[last'.args[1]] \in DOMAIN CoordDist'[last'.args[1]]
              /\ RPos(CoordDist'[last'.args[1]][FinalCoord'[last'.args[1]]]))]_vars

\* C15: a MeasureInteraction that immediately follows a MeasureInteraction on
\* the same two objects changes no distribution, no collapsed flag and no
\* final coordinate.
C15_RepeatedInteractionChangesNothing ==
    [][(/\ last.op = "MeasureInteraction"
        /\ Called("MeasureInteraction")
        /\ last'.args = last.args)
       => UNCHANGED <<CoordDist, IsCollapsed, FinalCoord>>]_vars

\* C15 witness: the second call of the loop has returned at the both-collapsed
\* guard, the first having collapsed two distinct objects.
C15_Witness ==
    /\ pc = <<"L196", 2>>
    /\ last.op = "MeasureInteraction"
    /\ last.outcome = "skipped"
    /\ last.args[1] # last.args[2]
    /\ IsCollapsed[last.args[1]]
    /\ IsCollapsed[last.args[2]]

====
